---- MODULE Spec2Model ----
(***************************************************************************)
(* Model of the SOLID-GO teaching snippets.                                *)
(*                                                                         *)
(*  - the CRUD HTTP service (UserRepository / UserService / UserHandler)   *)
(*    over a `users` table of a relational store;                          *)
(*  - the policy points: DescribeAnimal (Speaker), NotificationService     *)
(*    .Notify (Notifier) and CalculateFinalPrice (DiscountCalculator).     *)
(***************************************************************************)
EXTENDS Integers, Sequences, FiniteSets, TLC

VARIABLES
    users,    \* rows of the `users` table: set of [ID, Name, Email]
    seq,      \* last value handed out by the id sequence of `users`
    last,     \* the request served last and the response written for it
    tick,     \* parity of the number of requests served
    written,  \* history: per id, the record the last successful create/update returned
    console,  \* lines printed to standard output by the policy call sites
    ret,      \* value returned by the last CalculateFinalPrice call
    calls     \* history: the policy call sites invoked so far, in order

vars == <<users, seq, last, tick, written, console, ret, calls>>
crudVars == <<users, seq, last, tick, written>>
policyVars == <<console, ret, calls>>

\* ---- bounds ------------------------------------------------------------
MaxUsers == 2       \* rows ever inserted (caps the id sequence)
MaxCalls == 3       \* policy call-site invocations in one run

\* ---- HTTP status codes (net/http) --------------------------------------
StatusOK == 200
StatusCreated == 201
StatusNoContent == 204
StatusBadRequest == 400
StatusNotFound == 404
StatusInternalServerError == 500

\* ---- User and errors ---------------------------------------------------
ZeroUser == [ID |-> 0, Name |-> "", Email |-> ""]

ErrNil == "nil"
ErrNoRows == "sql: no rows in result set"
ErrConn == "driver: bad connection"

\* ---- strconv.Atoi on the id query parameter ----------------------------
Digits == <<"0", "1", "2", "3", "4", "5", "6", "7", "8", "9">>

IsDigit(c) == \E i \in 1..Len(Digits) : Digits[i] = c

DigitVal(c) == (CHOOSE i \in 1..Len(Digits) : Digits[i] = c) - 1

RECURSIVE DigitsVal(_)
DigitsVal(s) ==
    IF s = <<>> THEN 0
    ELSE DigitsVal(SubSeq(s, 1, Len(s) - 1)) * 10 + DigitVal(s[Len(s)])

Atoi(s) ==
    LET signed == s # <<>> /\ s[1] \in {"+", "-"}
        body   == IF signed THEN Tail(s) ELSE s
    IN  IF body = <<>> \/ \E i \in 1..Len(body) : ~IsDigit(body[i])
        THEN [err |-> TRUE, n |-> 0]
        ELSE [err |-> FALSE,
              n |-> IF signed /\ s[1] = "-" THEN 0 - DigitsVal(body)
                    ELSE DigitsVal(body)]

\* id query parameters tried by the clients (character sequences)
IdParams ==
    {<<Digits[i + 1]>> : i \in 1..MaxUsers}
        \cup {<<"+", "1">>, <<"1", "x">>, <<>>}

\* ---- json.Decoder.Decode into a User -----------------------------------
\* A request body: syntactically valid JSON object or not, and its members.
JStr(k, v) == [k |-> k, t |-> "string", s |-> v, n |-> 0]
JNum(k, v) == [k |-> k, t |-> "number", s |-> "", n |-> v]

Body(members) == [syntaxOk |-> TRUE, members |-> members]
Garbage == [syntaxOk |-> FALSE, members |-> {}]

Payloads ==
    { Garbage,
      Body({JStr("name", "A"), JStr("email", "a@x")}),
      Body({JNum("id", 2), JStr("name", "B"), JStr("extra", "z")}),
      Body({JStr("id", "1"), JStr("name", "A"), JStr("email", "a@x")}) }

NoPayload == Body({})

FieldType(k) == IF k = "id" THEN "number" ELSE "string"

Member(p, k) == CHOOSE m \in p.members : m.k = k

Has(p, k) == \E m \in p.members : m.k = k

Decode(p) ==
    IF ~p.syntaxOk THEN [err |-> TRUE, user |-> ZeroUser]
    ELSE IF \E m \in p.members :
                m.k \in {"id", "name", "email"} /\ m.t # FieldType(m.k)
    THEN [err |-> TRUE, user |-> ZeroUser]
    ELSE [err |-> FALSE,
          user |-> [ID    |-> IF Has(p, "id") THEN Member(p, "id").n ELSE 0,
                    Name  |-> IF Has(p, "name") THEN Member(p, "name").s ELSE "",
                    Email |-> IF Has(p, "email") THEN Member(p, "email").s ELSE ""]]

\* ---- UserRepository: the SQL statements against `users` ----------------
\* dbOk = FALSE: the statement fails in the store (connection lost, context
\* cancelled); no row is touched.
\* mutant: the INSERT also writes the id column from the given user
UserRepository_Create_InsertGivenID(tbl, sq, user, dbOk) ==
    IF ~dbOk
    THEN [users |-> tbl, seq |-> sq, user |-> user, err |-> ErrConn]
    ELSE LET row == [ID |-> user.ID, Name |-> user.Name, Email |-> user.Email]
         IN  [users |-> tbl \cup {row}, seq |-> sq + 1, user |-> row, err |-> ErrNil]

UserRepository_Create(tbl, sq, user, dbOk) ==
    IF ~dbOk
    THEN [users |-> tbl, seq |-> sq, user |-> user, err |-> ErrConn]
    ELSE LET row == [ID |-> sq + 1, Name |-> user.Name, Email |-> user.Email]
         IN  [users |-> tbl \cup {row}, seq |-> sq + 1, user |-> row, err |-> ErrNil]

\* mutant: Scan receives the name and email columns in the wrong order
UserRepository_Get_SwappedScan(tbl, id, dbOk) ==
    LET rows == {r \in tbl : r.ID = id}
        row  == CHOOSE r \in rows : TRUE
    IN  IF ~dbOk THEN [user |-> ZeroUser, err |-> ErrConn]
        ELSE IF rows = {} THEN [user |-> ZeroUser, err |-> ErrNoRows]
        ELSE [user |-> [ID |-> row.ID, Name |-> row.Email, Email |-> row.Name],
              err |-> ErrNil]

UserRepository_Get(tbl, id, dbOk) ==
    LET rows == {r \in tbl : r.ID = id}
    IN  IF ~dbOk THEN [user |-> ZeroUser, err |-> ErrConn]
        ELSE IF rows = {} THEN [user |-> ZeroUser, err |-> ErrNoRows]
        ELSE [user |-> CHOOSE r \in rows : TRUE, err |-> ErrNil]

\* mutant: a partial update that keeps the stored value of an empty field
UserRepository_Update_Merge(tbl, id, user, dbOk) ==
    LET rows == {r \in tbl : r.ID = id}
        upd  == {[ID |-> r.ID,
                  Name |-> IF user.Name = "" THEN r.Name ELSE user.Name,
                  Email |-> IF user.Email = "" THEN r.Email ELSE user.Email] : r \in rows}
    IN  IF ~dbOk THEN [users |-> tbl, user |-> user, err |-> ErrConn]
        ELSE IF rows = {} THEN [users |-> tbl, user |-> user, err |-> ErrNoRows]
        ELSE [users |-> (tbl \ rows) \cup upd,
              user |-> CHOOSE r \in upd : TRUE, err |-> ErrNil]

UserRepository_Update(tbl, id, user, dbOk) ==
    LET rows == {r \in tbl : r.ID = id}
        upd  == {[ID |-> r.ID, Name |-> user.Name, Email |-> user.Email] : r \in rows}
    IN  IF ~dbOk THEN [users |-> tbl, user |-> user, err |-> ErrConn]
        ELSE IF rows = {} THEN [users |-> tbl, user |-> user, err |-> ErrNoRows]
        ELSE [users |-> (tbl \ rows) \cup upd,
              user |-> CHOOSE r \in upd : TRUE, err |-> ErrNil]

UserRepository_Delete(tbl, id, dbOk) ==
    IF ~dbOk THEN [users |-> tbl, err |-> ErrConn]
    ELSE [users |-> {r \in tbl : r.ID # id}, err |-> ErrNil]

\* ---- UserService: pure delegation --------------------------------------
UserService_CreateUser(tbl, sq, name, email, dbOk) ==
    UserRepository_Create(tbl, sq, [ID |-> 0, Name |-> name, Email |-> email], dbOk)

UserService_GetUser(tbl, id, dbOk) == UserRepository_Get(tbl, id, dbOk)

UserService_UpdateUser(tbl, id, name, email, dbOk) ==
    UserRepository_Update(tbl, id, [ID |-> 0, Name |-> name, Email |-> email], dbOk)

UserService_DeleteUser(tbl, id, dbOk) == UserRepository_Delete(tbl, id, dbOk)

\* ---- http.ResponseWriter -----------------------------------------------
\* status 0: header not written yet.
NewResponse == [status |-> 0, kind |-> "none", text |-> "", user |-> ZeroUser]

HttpError(w, msg, code) == [status |-> code, kind |-> "text", text |-> msg, user |-> ZeroUser]

WriteHeader(w, code) == IF w.status = 0 THEN [w EXCEPT !.status = code] ELSE w

\* json.NewEncoder(w).Encode(u): the first Write sends an implicit 200
Encode(w, u) ==
    [WriteHeader(w, StatusOK) EXCEPT !.kind = "json", !.user = u]

\* ---- UserHandler: the HTTP endpoints -----------------------------------
\* Each handler yields the table after the request, the response written and
\* whether the service was invoked.
UserHandler_CreateUser(tbl, sq, p, dbOk) ==
    LET d == Decode(p)
        r == UserService_CreateUser(tbl, sq, d.user.Name, d.user.Email, dbOk)
    IN  IF d.err
        THEN [users |-> tbl, seq |-> sq, svc |-> FALSE, err |-> ErrNil,
              w |-> HttpError(NewResponse, "Invalid input", StatusBadRequest)]
        ELSE IF r.err # ErrNil
        THEN [users |-> r.users, seq |-> r.seq, svc |-> TRUE, err |-> r.err,
              w |-> HttpError(NewResponse, "Failed to create user",
                              StatusInternalServerError)]
        ELSE [users |-> r.users, seq |-> r.seq, svc |-> TRUE, err |-> r.err,
              w |-> Encode(WriteHeader(NewResponse, StatusCreated), r.user)]

UserHandler_GetUser(tbl, sq, idParam, dbOk) ==
    LET a == Atoi(idParam)
        r == UserService_GetUser(tbl, a.n, dbOk)
    IN  IF a.err
        THEN [users |-> tbl, seq |-> sq, svc |-> FALSE, err |-> ErrNil,
              w |-> HttpError(NewResponse, "Invalid ID", StatusBadRequest)]
        ELSE IF r.err # ErrNil
        THEN [users |-> tbl, seq |-> sq, svc |-> TRUE, err |-> r.err,
              w |-> HttpError(NewResponse, "User not found", StatusNotFound)]
        ELSE [users |-> tbl, seq |-> sq, svc |-> TRUE, err |-> r.err,
              w |-> Encode(NewResponse, r.user)]

\* mutant: the Decode error is dropped and the request goes on
UserHandler_UpdateUser_IgnoreDecodeErr(tbl, sq, idParam, p, dbOk) ==
    LET a == Atoi(idParam)
        d == Decode(p)
        r == UserService_UpdateUser(tbl, a.n, d.user.Name, d.user.Email, dbOk)
    IN  IF a.err
        THEN [users |-> tbl, seq |-> sq, svc |-> FALSE, err |-> ErrNil,
              w |-> HttpError(NewResponse, "Invalid ID", StatusBadRequest)]
        ELSE IF r.err # ErrNil
        THEN [users |-> r.users, seq |-> sq, svc |-> TRUE, err |-> r.err,
              w |-> HttpError(NewResponse, "Failed to update user", StatusNotFound)]
        ELSE [users |-> r.users, seq |-> sq, svc |-> TRUE, err |-> r.err,
              w |-> Encode(NewResponse, r.user)]

\* mutant: the id decoded from the payload, when present, names the record
UserHandler_UpdateUser_PayloadID(tbl, sq, idParam, p, dbOk) ==
    LET a == Atoi(idParam)
        d == Decode(p)
        id == IF d.user.ID # 0 THEN d.user.ID ELSE a.n
        r == UserService_UpdateUser(tbl, id, d.user.Name, d.user.Email, dbOk)
    IN  IF a.err
        THEN [users |-> tbl, seq |-> sq, svc |-> FALSE, err |-> ErrNil,
              w |-> HttpError(NewResponse, "Invalid ID", StatusBadRequest)]
        ELSE IF d.err
        THEN [users |-> tbl, seq |-> sq, svc |-> FALSE, err |-> ErrNil,
              w |-> HttpError(NewResponse, "Invalid input", StatusBadRequest)]
        ELSE IF r.err # ErrNil
        THEN [users |-> r.users, seq |-> sq, svc |-> TRUE, err |-> r.err,
              w |-> HttpError(NewResponse, "Failed to update user", StatusNotFound)]
        ELSE [users |-> r.users, seq |-> sq, svc |-> TRUE, err |-> r.err,
              w |-> Encode(NewResponse, r.user)]

UserHandler_UpdateUser(tbl, sq, idParam, p, dbOk) ==
    LET a == Atoi(idParam)
        d == Decode(p)
        r == UserService_UpdateUser(tbl, a.n, d.user.Name, d.user.Email, dbOk)
    IN  IF a.err
        THEN [users |-> tbl, seq |-> sq, svc |-> FALSE, err |-> ErrNil,
              w |-> HttpError(NewResponse, "Invalid ID", StatusBadRequest)]
        ELSE IF d.err
        THEN [users |-> tbl, seq |-> sq, svc |-> FALSE, err |-> ErrNil,
              w |-> HttpError(NewResponse, "Invalid input", StatusBadRequest)]
        ELSE IF r.err # ErrNil
        THEN [users |-> r.users, seq |-> sq, svc |-> TRUE, err |-> r.err,
              w |-> HttpError(NewResponse, "Failed to update user", StatusNotFound)]
        ELSE [users |-> r.users, seq |-> sq, svc |-> TRUE, err |-> r.err,
              w |-> Encode(NewResponse, r.user)]

\* mutant: a successful delete writes no header of its own (200 is sent)
UserHandler_DeleteUser_StatusOK(tbl, sq, idParam, dbOk) ==
    LET a == Atoi(idParam)
        r == UserService_DeleteUser(tbl, a.n, dbOk)
    IN  IF a.err
        THEN [users |-> tbl, seq |-> sq, svc |-> FALSE, err |-> ErrNil,
              w |-> HttpError(NewResponse, "Invalid ID", StatusBadRequest)]
        ELSE IF r.err # ErrNil
        THEN [users |-> r.users, seq |-> sq, svc |-> TRUE, err |-> r.err,
              w |-> HttpError(NewResponse, "Failed to delete user", StatusNotFound)]
        ELSE [users |-> r.users, seq |-> sq, svc |-> TRUE, err |-> r.err,
              w |-> WriteHeader(NewResponse, StatusOK)]

UserHandler_DeleteUser(tbl, sq, idParam, dbOk) ==
    LET a == Atoi(idParam)
        r == UserService_DeleteUser(tbl, a.n, dbOk)
    IN  IF a.err
        THEN [users |-> tbl, seq |-> sq, svc |-> FALSE, err |-> ErrNil,
              w |-> HttpError(NewResponse, "Invalid ID", StatusBadRequest)]
        ELSE IF r.err # ErrNil
        THEN [users |-> r.users, seq |-> sq, svc |-> TRUE, err |-> r.err,
              w |-> HttpError(NewResponse, "Failed to delete user", StatusNotFound)]
        ELSE [users |-> r.users, seq |-> sq, svc |-> TRUE, err |-> r.err,
              w |-> WriteHeader(NewResponse, StatusNoContent)]

\* ---- serving one request ------------------------------------------------
Served(op, idParam, p, h) ==
    /\ users' = h.users
    /\ seq' = h.seq
    /\ tick' = 1 - tick
    /\ last' = [op |-> op, idParam |-> idParam, payload |-> p,
                svc |-> h.svc, err |-> h.err, w |-> h.w]

\* history: the record the last successful create/update of an id returned
Forget(id) == {e \in written : e.user.ID # id}

CreateUserReq ==
    \E p \in Payloads, dbOk \in BOOLEAN :
        LET h == UserHandler_CreateUser(users, seq, p, dbOk)
        IN  /\ h.seq <= MaxUsers
            /\ Served("create", <<>>, p, h)
            /\ written' = IF h.w.status = StatusCreated
                          THEN Forget(h.w.user.ID) \cup {[user |-> h.w.user, by |-> "create"]}
                          ELSE written
            /\ UNCHANGED policyVars

GetUserReq ==
    \E idParam \in IdParams, dbOk \in BOOLEAN :
        LET h == UserHandler_GetUser(users, seq, idParam, dbOk)
        IN  /\ Served("get", idParam, NoPayload, h)
            /\ UNCHANGED <<written, policyVars>>

UpdateUserReq ==
    \E idParam \in IdParams, p \in Payloads, dbOk \in BOOLEAN :
        LET h == UserHandler_UpdateUser(users, seq, idParam, p, dbOk)
        IN  /\ Served("update", idParam, p, h)
            /\ written' = IF h.w.status = StatusOK
                          THEN Forget(Atoi(idParam).n) \cup {[user |-> h.w.user, by |-> "update"]}
                          ELSE written
            /\ UNCHANGED policyVars

DeleteUserReq ==
    \E idParam \in IdParams, dbOk \in BOOLEAN :
        LET h == UserHandler_DeleteUser(users, seq, idParam, dbOk)
        IN  /\ Served("delete", idParam, NoPayload, h)
            /\ written' = IF h.w.status = StatusNoContent
                          THEN Forget(Atoi(idParam).n)
                          ELSE written
            /\ UNCHANGED policyVars

\* ---- policy points ---------------------------------------------------
\* A printed line is the operand list handed to fmt.Println.

\* Speaker and its implementations
Dog_Speak == "Woof!"
Cat_Speak == "Meow!"
Parrot_Speak == "Squawk!"

Speakers == {"Dog", "Cat", "Parrot"}

\* dynamic dispatch of speaker.Speak() through the method table
Speak(speaker) ==
    CASE speaker = "Dog" -> Dog_Speak
      [] speaker = "Cat" -> Cat_Speak
      [] speaker = "Parrot" -> Parrot_Speak

DescribeAnimal(speaker) == <<"The animal says:", Speak(speaker)>>

\* Notifier and its implementations: the line printed and the error returned
EmailNotifier_Send(message) ==
    [line |-> <<"Sending email with message:", message>>, err |-> ErrNil]

SMSNotifier_Send(message) ==
    [line |-> <<"Sending SMS with message:", message>>, err |-> ErrNil]

Notifiers == {"EmailNotifier", "SMSNotifier"}

Send(notifier, message) ==
    CASE notifier = "EmailNotifier" -> EmailNotifier_Send(message)
      [] notifier = "SMSNotifier" -> SMSNotifier_Send(message)

NewNotificationService(notifier) == [notifier |-> notifier]

\* mutant: the service ignores the injected notifier and sends by email
Notify_HardWiredEmail(n, message) ==
    LET r == EmailNotifier_Send(message)
    IN  IF r.err # ErrNil
        THEN <<r.line, <<"Failed to send notification:", r.err>>>>
        ELSE <<r.line, <<"Notification sent successfully!">>>>

\* the lines NotificationService.Notify prints
Notify(n, message) ==
    LET r == Send(n.notifier, message)
    IN  IF r.err # ErrNil
        THEN <<r.line, <<"Failed to send notification:", r.err>>>>
        ELSE <<r.line, <<"Notification sent successfully!">>>>

Messages == {"Hello via Email!", "Hello via SMS!"}

\* DiscountCalculator and its implementations; prices are in hundredths, and
\* drawn so that every discounted price is a whole number of hundredths.
RegularCustomerDiscount_Calculate(price) == price
LoyalCustomerDiscount_Calculate(price) == (price * 90) \div 100
VIPCustomerDiscount_Calculate(price) == (price * 80) \div 100
NewCustomerDiscount_Calculate(price) == (price * 95) \div 100

DiscountCalculators ==
    {"RegularCustomerDiscount", "LoyalCustomerDiscount", "VIPCustomerDiscount",
     "NewCustomerDiscount"}

Calculate(calc, price) ==
    CASE calc = "RegularCustomerDiscount" -> RegularCustomerDiscount_Calculate(price)
      [] calc = "LoyalCustomerDiscount" -> LoyalCustomerDiscount_Calculate(price)
      [] calc = "VIPCustomerDiscount" -> VIPCustomerDiscount_Calculate(price)
      [] calc = "NewCustomerDiscount" -> NewCustomerDiscount_Calculate(price)

CalculateFinalPrice(price, discountCalculator) == Calculate(discountCalculator, price)

Prices == {10000, 2000}

Call(site, impl, message, price) ==
    [site |-> site, impl |-> impl, message |-> message, price |-> price]

DescribeAnimalCall ==
    \E speaker \in Speakers :
        /\ Len(calls) < MaxCalls
        /\ console' = Append(console, DescribeAnimal(speaker))
        /\ calls' = Append(calls, Call("DescribeAnimal", speaker, "", 0))
        /\ UNCHANGED <<ret, crudVars>>

NotifyCall ==
    \E notifier \in Notifiers, message \in Messages :
        /\ Len(calls) < MaxCalls
        /\ console' = console \o Notify(NewNotificationService(notifier), message)
        /\ calls' = Append(calls, Call("Notify", notifier, message, 0))
        /\ UNCHANGED <<ret, crudVars>>

CalculateFinalPriceCall ==
    \E price \in Prices, calc \in DiscountCalculators :
        /\ Len(calls) < MaxCalls
        /\ ret' = CalculateFinalPrice(price, calc)
        /\ calls' = Append(calls, Call("CalculateFinalPrice", calc, "", price))
        /\ UNCHANGED <<console, crudVars>>

Init ==
    /\ users = {}
    /\ seq = 0
    /\ tick = 0
    /\ last = [op |-> "none", idParam |-> <<>>, payload |-> NoPayload,
               svc |-> FALSE, err |-> ErrNil, w |-> NewResponse]
    /\ written = {}
    /\ console = <<>>
    /\ ret = 0
    /\ calls = <<>>

Next ==
    \/ CreateUserReq
    \/ GetUserReq
    \/ UpdateUserReq
    \/ DeleteUserReq

Spec == Init /\ [][Next]_vars

NextPolicy ==
    \/ DescribeAnimalCall
    \/ NotifyCall
    \/ CalculateFinalPriceCall

SpecPolicy == Init /\ [][NextPolicy]_vars

\* ======================== properties ====================================
IDs(tbl) == {r.ID : r \in tbl}

DigitChars == {"0", "1", "2", "3", "4", "5", "6", "7", "8", "9"}

\* an id parameter that is not an optional sign followed by one or more digits
Unparseable(s) ==
    ~\E k \in 0..1 :
        /\ Len(s) > k
        /\ k = 1 => s[1] \in {"+", "-"}
        /\ \A i \in (k + 1)..Len(s) : s[i] \in DigitChars

\* a body that is not a JSON object whose id is a number and whose name and
\* email are strings
Malformed(p) ==
    \/ ~p.syntaxOk
    \/ \E m \in p.members : m.k = "id" /\ m.t # "number"
    \/ \E m \in p.members : m.k \in {"name", "email"} /\ m.t # "string"

WellFormedReq(l) ==
    /\ l.op \in {"get", "update", "delete"} => ~Unparseable(l.idParam)
    /\ l.op \in {"create", "update"} => ~Malformed(l.payload)

ReqId(l) == Atoi(l.idParam).n

Supplied(l) == Decode(l.payload).user

Success(status) == status \in {StatusOK, StatusCreated, StatusNoContent}

\* C1: a well-formed get, update or delete of an identifier that is not stored
\* (never created, or already deleted) fails: the service returns an error and
\* the response is the not-found status.
C1_AbsentIdNotFound ==
    [][ ( /\ last'.op \in {"get", "update", "delete"}
          /\ WellFormedReq(last')
          /\ ReqId(last') \notin IDs(users) )
        => (last'.err # ErrNil /\ last'.w.status = StatusNotFound) ]_vars

\* C2: every service failure is answered with the status of its kind: not
\* found -> 404, storage failure -> 500, and never with a success status.
C2_FailureKindDistinguished ==
    (last.svc /\ last.err # ErrNil) =>
        /\ ~Success(last.w.status)
        /\ last.err = ErrNoRows => last.w.status = StatusNotFound
        /\ last.err = ErrConn => last.w.status = StatusInternalServerError

\* C3: a successful create returns a record with an assigned identifier and
\* the supplied name and email, and a successful get of that identifier before
\* any update or delete of it returns the record create returned.
C3_CreateThenGet ==
    /\ (last.op = "create" /\ last.w.status = StatusCreated) =>
          /\ last.w.user.ID # 0
          /\ last.w.user.Name = Supplied(last).Name
          /\ last.w.user.Email = Supplied(last).Email
    /\ (last.op = "get" /\ last.w.status = StatusOK) =>
          \A e \in written :
              (e.by = "create" /\ e.user.ID = ReqId(last)) => last.w.user = e.user

C3_Witness ==
    /\ last.op = "get"
    /\ last.w.status = StatusOK
    /\ \E e \in written :
          e.by = "create" /\ e.user.ID = ReqId(last) /\ e.user.Name = "A"
    /\ Cardinality(users) = 2

\* C4: a successful update returns exactly the supplied name and email under
\* the same id (an absent field is empty, nothing is kept from before), and a
\* successful get of that id before the next update or delete returns the same.
C4_UpdateReplacesAll ==
    /\ (last.op = "update" /\ last.w.status = StatusOK) =>
          /\ last.w.user = [ID |-> ReqId(last), Name |-> Supplied(last).Name,
                            Email |-> Supplied(last).Email]
          /\ last.w.user \in users
          /\ ~Has(last.payload, "email") => last.w.user.Email = ""
    /\ (last.op = "get" /\ last.w.status = StatusOK) =>
          \A e \in written :
              (e.by = "update" /\ e.user.ID = ReqId(last)) => last.w.user = e.user

C4_Witness ==
    /\ last.op = "get"
    /\ last.w.status = StatusOK
    /\ last.w.user.Name = "B"
    /\ last.w.user.Email = ""
    /\ \E e \in written : e.by = "update" /\ e.user.ID = ReqId(last)

\* C5: after a successful delete(id), a second delete(id) fails with NotFound
\* and leaves the stored records as the first delete left them.
C5_SecondDeleteNotFound ==
    [][ ( /\ last.op = "delete" /\ last.w.status = StatusNoContent
          /\ ReqId(last) \in 1..seq
          /\ last'.op = "delete" /\ ~Unparseable(last'.idParam)
          /\ ReqId(last') = ReqId(last) )
        => (last'.w.status = StatusNotFound /\ users' = users) ]_vars

C7_SuccessStatus ==
    (last.svc /\ last.err = ErrNil) =>
        /\ last.op = "create" =>
              (last.w.status = StatusCreated /\ last.w.kind = "json"
                  /\ last.w.user \in users /\ last.w.user.ID = seq)
        /\ last.op \in {"get", "update"} =>
              (last.w.status = StatusOK /\ last.w.kind = "json"
                  /\ last.w.user \in users /\ last.w.user.ID = ReqId(last))
        /\ last.op = "delete" =>
              (last.w.status = StatusNoContent /\ last.w.kind = "none")

C7_Witness ==
    /\ last.svc
    /\ last.err = ErrNil
    /\ last.op = "delete"
    /\ last.w.status = StatusNoContent
    /\ ReqId(last) \in 1..seq

\* C8: every stored record has a non-null identifier, no two stored records
\* share one, a created record gets the next identifier of the store whatever
\* id the payload carried, and an update never changes the stored identifiers.
C8_IdentifierInvariant ==
    [][ /\ \A r \in users' : r.ID # 0
        /\ \A r1, r2 \in users' : r1.ID = r2.ID => r1 = r2
        /\ (last'.op = "create" /\ last'.w.status = StatusCreated) =>
              /\ last'.w.user.ID = seq + 1
              /\ last'.w.user.ID \notin IDs(users)
              /\ IDs(users') = IDs(users) \cup {seq + 1}
        /\ last'.op = "update" => IDs(users') = IDs(users) ]_vars

C8_Witness ==
    /\ last.op = "create"
    /\ last.w.status = StatusCreated
    /\ Has(last.payload, "id")
    /\ Member(last.payload, "id").n # last.w.user.ID

\* C10: an update touches only the record named by the id parameter: the id
\* in the payload is ignored, records with another id keep their fields, and
\* an update of an id that is not stored creates no record.
C10_UpdateFrame ==
    [][ last'.op = "update" =>
          /\ \A r \in users : r.ID # ReqId(last') => r \in users'
          /\ \A r \in users' : r.ID # ReqId(last') => r \in users
          /\ IDs(users') = IDs(users)
          /\ last'.w.status = StatusOK => last'.w.user.ID = ReqId(last') ]_vars

C10_Witness ==
    /\ last.op = "update"
    /\ last.w.status = StatusOK
    /\ Has(last.payload, "id")
    /\ Member(last.payload, "id").n # ReqId(last)
    /\ \E r \in users : r.ID = Member(last.payload, "id").n /\ r.Name = "A"

\* C9: each call site, invoked with any implementation of its capability
\* interface, yields that implementation's own output, fixed by the strategy
\* and the call arguments alone: the console holds, call after call, the
\* lines of each call, and a price call returns the strategy's price.
ExpectedSound(impl) ==
    CASE impl = "Dog" -> "Woof!" [] impl = "Cat" -> "Meow!" [] impl = "Parrot" -> "Squawk!"

ExpectedChannel(impl) ==
    CASE impl = "EmailNotifier" -> "Sending email with message:"
      [] impl = "SMSNotifier" -> "Sending SMS with message:"

PercentOff(impl) ==
    CASE impl = "RegularCustomerDiscount" -> 0
      [] impl = "LoyalCustomerDiscount" -> 10
      [] impl = "VIPCustomerDiscount" -> 20
      [] impl = "NewCustomerDiscount" -> 5

ExpectedLines(c) ==
    CASE c.site = "DescribeAnimal" -> << <<"The animal says:", ExpectedSound(c.impl)>> >>
      [] c.site = "Notify" ->
            << <<ExpectedChannel(c.impl), c.message>>, <<"Notification sent successfully!">> >>
      [] c.site = "CalculateFinalPrice" -> <<>>

RECURSIVE ExpectedConsole(_)
ExpectedConsole(cs) ==
    IF cs = <<>> THEN <<>>
    ELSE ExpectedConsole(SubSeq(cs, 1, Len(cs) - 1)) \o ExpectedLines(cs[Len(cs)])

ExpectedPrice(c) == c.price - (c.price * PercentOff(c.impl)) \div 100

C9_Substitutable ==
    /\ console = ExpectedConsole(calls)
    /\ (calls # <<>> /\ calls[Len(calls)].site = "CalculateFinalPrice") =>
          ret = ExpectedPrice(calls[Len(calls)])

C9_Witness ==
    /\ Len(calls) = 3
    /\ \A i \in 1..3 : calls[i].site = "DescribeAnimal"
    /\ {calls[i].impl : i \in 1..3} = Speakers
    /\ Cardinality({console[i] : i \in 1..3}) = 3
====
